---- MODULE Spec2Model ----
(***************************************************************************)
(* Model of bridge.py: an interactive launcher that probes connectivity,   *)
(* selects Cloud or Local mode, remediates the local backend (start the    *)
(* server, poll, ensure the model artifact) and hands off to the agent.    *)
(*                                                                         *)
(* Strings that the code inspects character by character (model           *)
(* identifiers, list output, credentials) are sequences of one-character   *)
(* strings.  A Python dict is a function whose DOMAIN is its key set.      *)
(***************************************************************************)
EXTENDS Integers, Sequences, FiniteSets, TLC

VARIABLES
  pc,               \* position of main()
  fileExists,       \* CONFIG_FILE.exists()
  fileData,         \* the JSON document in CONFIG_FILE
  setsSinceRender,  \* keys and values given to save_config since the last render
  ollamaInstalled,  \* an "ollama" binary is on PATH
  aiderInVenv,      \* os.path.exists(<dir of sys.executable>/aider)
  aiderOnPath,      \* shutil.which("aider") finds something
  osEnviron,        \* os.environ of the orchestrator
  online, ollama_up, cfg, cloud_ready,
  menuDefault,      \* default= of the menu prompt, line 184
  localLabel,       \* suffix printed after the Local entry, line 179
  choice, selected_model, env, cmd,
  attempt,          \* loop variable of "for _ in range(20)"
  \* observations of the current menu iteration
  initialCheck,     \* result of the check at line 57: "none", "up", "down"
  spawned,          \* Popen(["ollama","serve"]) calls that started a process
  polls,            \* check_connection calls made inside the poll loop
  sleeps,           \* time.sleep(0.5) calls made inside the poll loop
  listRuns,         \* "ollama list" runs
  pullRuns,         \* "ollama pull" runs
  listStdout,       \* stdout of the last "ollama list"
  pullArg,          \* argument given to the last "ollama pull"
  pullExit,         \* exit status of the last "ollama pull"
  svcResult,        \* outcome of ensure_ollama_running
  artResult,        \* outcome of ensure_model_pulled
  launched,         \* the agent child was started in this iteration
  childEnv,         \* env= handed to the agent child
  childArgs,        \* argv handed to the agent child
  childOutcome,     \* how the wait on the agent child ended
  cloudLaunchedBefore,  \* an earlier iteration of the session launched Cloud
  localSelectedBefore,  \* an earlier iteration of the session selected Local
  exitStatus, exitCause

world  == <<ollamaInstalled, aiderInVenv, aiderOnPath, osEnviron>>
file   == <<fileExists, fileData, setsSinceRender>>
render == <<online, ollama_up, cfg, cloud_ready, menuDefault, localLabel>>
hist   == <<initialCheck, spawned, polls, sleeps, listRuns, pullRuns, listStdout, pullArg,
            pullExit, svcResult, artResult, launched, childEnv, childArgs, childOutcome>>
session == <<cloudLaunchedBefore, localSelectedBefore>>
exit   == <<exitStatus, exitCause>>
vars   == <<pc, world, file, render, choice, selected_model, env, cmd, attempt,
            hist, session, exit>>

----------------------------------------------------------------------------
(* Strings *)

None == <<"<None>">>      \* Python's None (also JSON null)
EmptyStr == <<>>

OllamaPrefix == <<"o","l","l","a","m","a","/">>
QwenName == <<"q","w","e","n","2",".","5","-","c","o","d","e","r",":","3","2","b">>
\* "ollama/qwen2.5-coder:32b"
DefaultLocalModel == OllamaPrefix \o QwenName
\* "gemini/gemini-1.5-pro-latest"
DefaultCloudModel ==
  <<"g","e","m","i","n","i","/","g","e","m","i","n","i","-","1",".","5","-",
    "p","r","o","-","l","a","t","e","s","t">>

\* identifiers a user may type in the settings menu
NsName == <<"a","o","l","l","a","m","a","/","b">>       \* "aollama/b"
UserLocalModel == OllamaPrefix \o NsName                  \* "ollama/aollama/b"
UserCloudModel == <<"g","e","m","i","n","i","/","f">>     \* "gemini/f"

Credentials == { EmptyStr, <<"k">> }      \* what a user may type as API key
LocalModels == { DefaultLocalModel, UserLocalModel }
CloudModels == { DefaultCloudModel, UserCloudModel }

\* what "ollama list" may print: nothing, or a line naming one model
ListOutputs == { EmptyStr, QwenName \o <<" ">>, NsName \o <<" ">> }
ExitCodes == { 0, 1 }

\* str.replace(old, new): left to right, non-overlapping, every occurrence
RECURSIVE Replace(_, _, _)
Replace(s, old, new) ==
  IF Len(s) < Len(old) THEN s
  ELSE IF SubSeq(s, 1, Len(old)) = old
       THEN new \o Replace(SubSeq(s, Len(old) + 1, Len(s)), old, new)
       ELSE <<Head(s)>> \o Replace(Tail(s), old, new)

\* Python's "sub in s" for str
Contains(sub, s) ==
  \E i \in 1..(Len(s) - Len(sub) + 1) : SubSeq(s, i, i + Len(sub) - 1) = sub

\* truthiness of a str-or-None value
Truthy(v) == v # None /\ v # EmptyStr

----------------------------------------------------------------------------
(* Dicts *)

EmptyDict == [k \in {} |-> EmptyStr]
Get(d, k) == IF k \in DOMAIN d THEN d[k] ELSE None
\* dict.update
Update(d, new) ==
  [k \in (DOMAIN d) \cup (DOMAIN new) |-> IF k \in DOMAIN new THEN new[k] ELSE d[k]]

ConfigKeys == {"GEMINI_API_KEY", "GEMINI_MODEL", "LOCAL_MODEL"}
ValuesFor(k) ==
  CASE k = "GEMINI_API_KEY" -> Credentials
    [] k = "GEMINI_MODEL"   -> CloudModels
    [] k = "LOCAL_MODEL"    -> LocalModels

\* config documents an earlier session (or the user) can have left behind
InitConfigs ==
  { d \in UNION { [S -> Credentials \cup CloudModels \cup LocalModels] : S \in SUBSET ConfigKeys } :
      \A k \in DOMAIN d : d[k] \in ValuesFor(k) }

\* "load_config() or {}" and "not load_config()"
LoadOrEmpty == IF fileExists THEN fileData ELSE EmptyDict
ConfigFalsy == ~fileExists \/ DOMAIN fileData = {}

\* variant: the document is written from new_data alone, without the merge
save_config_NoMerge(new_data) == new_data

\* the file after save_config(new_data)
save_config(new_data) == Update(LoadOrEmpty, new_data)

\* inherited environments: with or without a credential set by the user's shell
InheritedEnvs ==
  { [k \in {"PATH"} |-> <<"p">>],
    [k \in {"PATH", "GEMINI_API_KEY"} |-> IF k = "PATH" THEN <<"p">> ELSE <<"h">>] }

\* env[key] = value on a dict
SetItem(d, key, value) == Update(d, [k \in {key} |-> value])

MaxAttempts == 20      \* range(20) in ensure_ollama_running

PollIntervalMs == 500  \* time.sleep(0.5) in ensure_ollama_running

VenvAider == <<"<venv-bin>/aider">>     \* os.path.join(venv_bin, "aider")
WhichAider == <<"<PATH>/aider">>        \* shutil.which("aider")

\* variant: returns the fallback location without testing that it exists
get_aider_path_NoTest ==
  IF aiderInVenv THEN VenvAider ELSE WhichAider

\* get_aider_path()
get_aider_path ==
  IF aiderInVenv THEN VenvAider
  ELSE IF aiderOnPath THEN WhichAider
  ELSE None

\* variant: tests the key with "is not None" instead of truthiness
CloudReady_KeyNotNone(on, c) == on /\ Get(c, "GEMINI_API_KEY") # None

\* "online and cfg.get('GEMINI_API_KEY')", as a truth value
CloudReady(on, c) == on /\ Truthy(Get(c, "GEMINI_API_KEY"))

\* clean_id in ensure_model_pulled
clean_id(model_id) == Replace(model_id, OllamaPrefix, EmptyStr)

\* the argv built for the agent
BuildCmd(exe, model) ==
  <<exe, "--model", model, "--architect", "--watch-files", "--no-auto-commits">>

----------------------------------------------------------------------------
Init ==
  /\ pc = "start"
  /\ setsSinceRender = EmptyDict
  /\ \/ fileExists = FALSE /\ fileData = EmptyDict
     \/ fileExists = TRUE /\ fileData \in InitConfigs
  /\ ollamaInstalled \in BOOLEAN
  /\ aiderInVenv \in BOOLEAN
  /\ aiderOnPath \in BOOLEAN
  /\ osEnviron \in InheritedEnvs
  /\ online = FALSE /\ ollama_up = FALSE /\ cfg = EmptyDict /\ cloud_ready = FALSE
  /\ menuDefault = "" /\ localLabel = ""
  /\ choice = "" /\ selected_model = EmptyStr /\ env = EmptyDict /\ cmd = <<>>
  /\ attempt = 0
  /\ initialCheck = "none"
  /\ spawned = 0 /\ polls = 0 /\ sleeps = 0 /\ listRuns = 0 /\ pullRuns = 0
  /\ listStdout = EmptyStr /\ pullArg = EmptyStr /\ pullExit = 0
  /\ svcResult = "unknown" /\ artResult = "unknown"
  /\ launched = FALSE /\ childEnv = EmptyDict /\ childArgs = <<>>
  /\ childOutcome = "none"
  /\ cloudLaunchedBefore = FALSE /\ localSelectedBefore = FALSE
  /\ exitStatus = 0 /\ exitCause = "running"

\* an exception nobody catches: traceback, interpreter exits with status 1
Uncaught ==
  /\ pc' = "exited" /\ exitStatus' = 1 /\ exitCause' = "uncaught"

\* main, lines 149-156: first-run setup
Start ==
  /\ pc = "start"
  /\ IF ConfigFalsy
     THEN \E key \in Credentials :
            /\ fileData' = save_config(
                 [k \in ConfigKeys |->
                    CASE k = "GEMINI_API_KEY" -> key
                      [] k = "GEMINI_MODEL"   -> DefaultCloudModel
                      [] k = "LOCAL_MODEL"    -> DefaultLocalModel])
            /\ fileExists' = TRUE
            /\ setsSinceRender' =
                 [k \in ConfigKeys |->
                    CASE k = "GEMINI_API_KEY" -> key
                      [] k = "GEMINI_MODEL"   -> DefaultCloudModel
                      [] k = "LOCAL_MODEL"    -> DefaultLocalModel]
     ELSE UNCHANGED file
  /\ pc' = "render"
  /\ UNCHANGED <<world, render, choice, selected_model, env, cmd, attempt,
                 hist, session, exit>>

\* variant: the default is always Cloud
DefaultChoice_Constant(ready) == "1"

\* line 184: default="1" if cloud_ready else "2"
DefaultChoice(ready) == IF ready THEN "1" ELSE "2"

\* line 179: the suffix of the Local entry
LocalLabel(up) == IF up THEN "ok" ELSE "auto-start"

\* main, lines 159-184: probe, snapshot the configuration, draw the menu
Render ==
  /\ pc = "render"
  /\ online' \in BOOLEAN
  /\ ollama_up' \in BOOLEAN
  /\ cfg' = fileData
  /\ cloud_ready' = CloudReady(online', cfg')
  /\ menuDefault' = DefaultChoice(cloud_ready')
  /\ localLabel' = LocalLabel(ollama_up')
  /\ pc' = "choose"
  /\ cloudLaunchedBefore' = (cloudLaunchedBefore \/ (launched /\ choice = "1"))
  /\ localSelectedBefore' = (localSelectedBefore \/ choice = "2")
  \* a new menu iteration: forget the observations of the previous one
  /\ choice' = "" /\ selected_model' = EmptyStr /\ cmd' = <<>> /\ attempt' = 0
  /\ initialCheck' = "none"
  /\ spawned' = 0 /\ polls' = 0 /\ sleeps' = 0 /\ listRuns' = 0 /\ pullRuns' = 0
  /\ listStdout' = EmptyStr /\ pullArg' = EmptyStr /\ pullExit' = 0
  /\ svcResult' = "unknown" /\ artResult' = "unknown"
  /\ launched' = FALSE /\ childEnv' = EmptyDict /\ childArgs' = <<>>
  /\ childOutcome' = "none"
  /\ setsSinceRender' = EmptyDict
  /\ UNCHANGED <<world, fileExists, fileData, env, exit>>

\* line 186
ChooseQuit ==
  /\ pc = "choose"
  /\ choice' = "q"
  /\ pc' = "exited" /\ exitStatus' = 0 /\ exitCause' = "quit"
  /\ UNCHANGED <<world, file, render, selected_model, env, cmd, attempt, hist,
                 session>>

\* lines 187-189
ChooseSettings ==
  /\ pc = "choose"
  /\ choice' = "3"
  /\ pc' = "settings"
  /\ UNCHANGED <<world, file, render, selected_model, env, cmd, attempt, hist,
                 session, exit>>

\* variant: env aliases os.environ (no .copy()), so the credential is written
\* into the orchestrator's own environment
ChooseCloud_NoCopy ==
  /\ pc = "choose"
  /\ choice' = "1"
  /\ IF ~cloud_ready
     THEN /\ selected_model' = EmptyStr
          /\ env' = osEnviron
          /\ osEnviron' = osEnviron
          /\ pc' = "render"
     ELSE /\ selected_model' = Get(cfg, "GEMINI_MODEL")
          /\ env' = SetItem(osEnviron, "GEMINI_API_KEY", Get(cfg, "GEMINI_API_KEY"))
          /\ osEnviron' = env'
          /\ pc' = "find_aider"
  /\ UNCHANGED <<ollamaInstalled, aiderInVenv, aiderOnPath, file, render, cmd,
                 attempt, hist, session, exit>>

\* variant: the "if not cloud_ready" guard is missing
ChooseCloud_NoGuard ==
  /\ pc = "choose"
  /\ choice' = "1"
  /\ selected_model' = Get(cfg, "GEMINI_MODEL")
  /\ env' = SetItem(osEnviron, "GEMINI_API_KEY", Get(cfg, "GEMINI_API_KEY"))
  /\ pc' = "find_aider"
  /\ UNCHANGED <<world, file, render, cmd, attempt, hist, session, exit>>

\* lines 191-201
ChooseCloud ==
  /\ pc = "choose"
  /\ choice' = "1"
  /\ IF ~cloud_ready
     THEN /\ selected_model' = EmptyStr
          /\ env' = osEnviron
          /\ pc' = "render"
     ELSE /\ selected_model' = Get(cfg, "GEMINI_MODEL")
          /\ env' = SetItem(osEnviron, "GEMINI_API_KEY", Get(cfg, "GEMINI_API_KEY"))
          /\ pc' = "find_aider"
  /\ UNCHANGED <<world, file, render, cmd, attempt, hist, session, exit>>

\* variant: env is copied from os.environ once, not once per iteration
ChooseLocal_EnvKept ==
  /\ pc = "choose"
  /\ choice' = "2"
  /\ selected_model' = EmptyStr
  /\ env' = IF env = EmptyDict THEN osEnviron ELSE env
  /\ pc' = "svc_check"
  /\ UNCHANGED <<world, file, render, cmd, attempt, hist, session, exit>>

\* lines 191-192, 204-206
ChooseLocal ==
  /\ pc = "choose"
  /\ choice' = "2"
  /\ selected_model' = EmptyStr
  /\ env' = osEnviron
  /\ pc' = "svc_check"
  /\ UNCHANGED <<world, file, render, cmd, attempt, hist, session, exit>>

\* settings_menu, lines 134-136
SettingsKey ==
  /\ pc = "settings"
  /\ \E new_key \in Credentials :
       IF new_key # EmptyStr
       THEN /\ fileData' = save_config([k \in {"GEMINI_API_KEY"} |-> new_key])
            /\ fileExists' = TRUE
            /\ setsSinceRender' = SetItem(setsSinceRender, "GEMINI_API_KEY", new_key)
       ELSE UNCHANGED file
  /\ UNCHANGED <<pc, world, render, choice, selected_model, env, cmd, attempt,
                 hist, session, exit>>

\* Prompt.ask(..., default=d): empty input returns d
PromptWithDefault(input, d) == IF input = EmptyStr THEN d ELSE input

\* settings_menu, lines 137-139
SettingsCloud ==
  /\ pc = "settings"
  /\ \E input \in CloudModels \cup {EmptyStr} :
       /\ fileData' = save_config([k \in {"GEMINI_MODEL"} |->
                         PromptWithDefault(input, Get(LoadOrEmpty, "GEMINI_MODEL"))])
       /\ fileExists' = TRUE
       /\ setsSinceRender' = SetItem(setsSinceRender, "GEMINI_MODEL",
                                PromptWithDefault(input, Get(LoadOrEmpty, "GEMINI_MODEL")))
  /\ UNCHANGED <<pc, world, render, choice, selected_model, env, cmd, attempt,
                 hist, session, exit>>

\* settings_menu, lines 140-142
SettingsLocal ==
  /\ pc = "settings"
  /\ \E input \in LocalModels \cup {EmptyStr} :
       /\ fileData' = save_config([k \in {"LOCAL_MODEL"} |->
                         PromptWithDefault(input, Get(LoadOrEmpty, "LOCAL_MODEL"))])
       /\ fileExists' = TRUE
       /\ setsSinceRender' = SetItem(setsSinceRender, "LOCAL_MODEL",
                                PromptWithDefault(input, Get(LoadOrEmpty, "LOCAL_MODEL")))
  /\ UNCHANGED <<pc, world, render, choice, selected_model, env, cmd, attempt,
                 hist, session, exit>>

\* settings_menu, lines 143-144, then "continue" at line 189
SettingsBack ==
  /\ pc = "settings"
  /\ pc' = "render"
  /\ UNCHANGED <<world, file, render, choice, selected_model, env, cmd, attempt,
                 hist, session, exit>>

\* variant: the early "return True" is missing
SvcCheck_NoEarlyReturn ==
  /\ pc = "svc_check"
  /\ \E up \in BOOLEAN :
       /\ initialCheck' = IF up THEN "up" ELSE "down"
       /\ svcResult' = IF up THEN "ready" ELSE "unreachable"
       /\ pc' = "svc_spawn"
  /\ UNCHANGED <<world, file, render, choice, selected_model, env, cmd, attempt,
                 spawned, polls, sleeps, listRuns, pullRuns, listStdout, pullArg,
                 pullExit, artResult, launched, childEnv, childArgs, childOutcome,
                 session, exit>>

\* ensure_ollama_running, lines 57-58
SvcCheck ==
  /\ pc = "svc_check"
  /\ \E up \in BOOLEAN :
       IF up THEN /\ initialCheck' = "up"
                  /\ svcResult' = "ready"
                  /\ pc' = "art_list"
             ELSE /\ initialCheck' = "down"
                  /\ svcResult' = "unreachable"
                  /\ pc' = "svc_spawn"
  /\ UNCHANGED <<world, file, render, choice, selected_model, env, cmd, attempt,
                 spawned, polls, sleeps, listRuns, pullRuns, listStdout, pullArg,
                 pullExit, artResult, launched, childEnv, childArgs, childOutcome,
                 session, exit>>

\* variant: the Popen sits outside the try, the FileNotFoundError handler
\* around the loop lets the polling go on
SvcSpawn_MissingToolPolls ==
  /\ pc = "svc_spawn"
  /\ IF ollamaInstalled
     THEN /\ spawned' = spawned + 1
          /\ svcResult' = "starting"
     ELSE /\ spawned' = spawned
          /\ svcResult' = "tool_missing"
  /\ pc' = "svc_poll"
  /\ attempt' = 0
  /\ UNCHANGED <<world, file, render, choice, selected_model, env, cmd,
                 initialCheck, polls, sleeps, listRuns, pullRuns, listStdout, pullArg,
                 pullExit, artResult, launched, childEnv, childArgs, childOutcome,
                 session, exit>>

\* ensure_ollama_running, lines 60-63 and 74-76
SvcSpawn ==
  /\ pc = "svc_spawn"
  /\ IF ollamaInstalled
     THEN /\ spawned' = spawned + 1
          /\ svcResult' = "starting"
          /\ pc' = "svc_poll"
     ELSE /\ spawned' = spawned
          /\ svcResult' = "tool_missing"
          /\ pc' = "press_enter"
  /\ attempt' = 0
  /\ UNCHANGED <<world, file, render, choice, selected_model, env, cmd,
                 initialCheck, polls, sleeps, listRuns, pullRuns, listStdout, pullArg,
                 pullExit, artResult, launched, childEnv, childArgs, childOutcome,
                 session, exit>>

\* variant: the Popen sits inside the loop, every failed pass spawns again
SvcPoll_Respawns ==
  /\ pc = "svc_poll"
  /\ attempt < MaxAttempts
  /\ polls' = polls + 1
  /\ \E up \in BOOLEAN :
       IF up THEN /\ svcResult' = "ready"
                  /\ pc' = "art_list"
                  /\ UNCHANGED <<sleeps, attempt, spawned>>
             ELSE /\ sleeps' = sleeps + 1
                  /\ attempt' = attempt + 1
                  /\ spawned' = spawned + 1
                  /\ IF attempt + 1 = MaxAttempts
                     THEN svcResult' = "timeout" /\ pc' = "press_enter"
                     ELSE svcResult' = svcResult /\ pc' = pc
  /\ UNCHANGED <<world, file, render, choice, selected_model, env, cmd,
                 initialCheck, listRuns, pullRuns, listStdout, pullArg,
                 pullExit, artResult, launched, childEnv, childArgs, childOutcome,
                 session, exit>>

\* variant: each pass sleeps before it checks
SvcPoll_SleepFirst ==
  /\ pc = "svc_poll"
  /\ attempt < MaxAttempts
  /\ polls' = polls + 1
  /\ sleeps' = sleeps + 1
  /\ \E up \in BOOLEAN :
       IF up THEN /\ svcResult' = "ready"
                  /\ pc' = "art_list"
                  /\ UNCHANGED attempt
             ELSE /\ attempt' = attempt + 1
                  /\ IF attempt + 1 = MaxAttempts
                     THEN svcResult' = "timeout" /\ pc' = "press_enter"
                     ELSE svcResult' = svcResult /\ pc' = pc
  /\ UNCHANGED <<world, file, render, choice, selected_model, env, cmd,
                 initialCheck, spawned, listRuns, pullRuns, listStdout, pullArg,
                 pullExit, artResult, launched, childEnv, childArgs, childOutcome,
                 session, exit>>

\* variant: the loop runs one pass short (range(19))
SvcPoll_OnePassShort ==
  /\ pc = "svc_poll"
  /\ attempt < MaxAttempts - 1
  /\ polls' = polls + 1
  /\ \E up \in BOOLEAN :
       IF up THEN /\ svcResult' = "ready"
                  /\ pc' = "art_list"
                  /\ UNCHANGED <<sleeps, attempt>>
             ELSE /\ sleeps' = sleeps + 1
                  /\ attempt' = attempt + 1
                  /\ IF attempt + 1 = MaxAttempts - 1
                     THEN svcResult' = "timeout" /\ pc' = "press_enter"
                     ELSE svcResult' = svcResult /\ pc' = pc
  /\ UNCHANGED <<world, file, render, choice, selected_model, env, cmd,
                 initialCheck, spawned, listRuns, pullRuns, listStdout, pullArg,
                 pullExit, artResult, launched, childEnv, childArgs, childOutcome,
                 session, exit>>

\* variant: main ignores the False returned after the loop is exhausted
SvcPoll_TimeoutIgnored ==
  /\ pc = "svc_poll"
  /\ attempt < MaxAttempts
  /\ polls' = polls + 1
  /\ \E up \in BOOLEAN :
       IF up THEN /\ svcResult' = "ready"
                  /\ pc' = "art_list"
                  /\ UNCHANGED <<sleeps, attempt>>
             ELSE /\ sleeps' = sleeps + 1
                  /\ attempt' = attempt + 1
                  /\ IF attempt + 1 = MaxAttempts
                     THEN svcResult' = "timeout" /\ pc' = "art_list"
                     ELSE svcResult' = svcResult /\ pc' = pc
  /\ UNCHANGED <<world, file, render, choice, selected_model, env, cmd,
                 initialCheck, spawned, listRuns, pullRuns, listStdout, pullArg,
                 pullExit, artResult, launched, childEnv, childArgs, childOutcome,
                 session, exit>>

\* ensure_ollama_running, one pass of the loop at lines 66-70, and 72-73
SvcPoll ==
  /\ pc = "svc_poll"
  /\ attempt < MaxAttempts
  /\ polls' = polls + 1
  /\ \E up \in BOOLEAN :
       IF up THEN /\ svcResult' = "ready"
                  /\ pc' = "art_list"
                  /\ UNCHANGED <<sleeps, attempt>>
             ELSE /\ sleeps' = sleeps + 1
                  /\ attempt' = attempt + 1
                  /\ IF attempt + 1 = MaxAttempts
                     THEN svcResult' = "timeout" /\ pc' = "press_enter"
                     ELSE svcResult' = svcResult /\ pc' = pc
  /\ UNCHANGED <<world, file, render, choice, selected_model, env, cmd,
                 initialCheck, spawned, listRuns, pullRuns, listStdout, pullArg,
                 pullExit, artResult, launched, childEnv, childArgs, childOutcome,
                 session, exit>>

\* lines 207-208 and 212-213: Prompt.ask("Press Enter..."), continue
PressEnter ==
  /\ pc = "press_enter"
  /\ pc' = "render"
  /\ UNCHANGED <<world, file, render, choice, selected_model, env, cmd, attempt,
                 hist, session, exit>>

\* variant: main ignores what the artifact step found, nothing is pulled
ArtList_MissingIgnored ==
  /\ pc = "art_list"
  /\ selected_model' = Get(cfg, "LOCAL_MODEL")
  /\ IF selected_model' = None
     THEN /\ Uncaught
          /\ UNCHANGED <<listRuns, listStdout, artResult>>
     ELSE IF ~ollamaInstalled
     THEN /\ Uncaught
          /\ UNCHANGED <<listRuns, listStdout, artResult>>
     ELSE \E out \in ListOutputs :
            /\ listRuns' = listRuns + 1
            /\ listStdout' = out
            /\ IF Contains(clean_id(selected_model'), out)
               THEN artResult' = "ready" /\ pc' = "find_aider"
               ELSE artResult' = "missing" /\ pc' = "find_aider"
            /\ UNCHANGED exit
  /\ UNCHANGED <<world, file, render, choice, env, cmd, attempt,
                 initialCheck, spawned, polls, sleeps, pullRuns, pullArg, pullExit, svcResult,
                 launched, childEnv, childArgs, childOutcome, session>>

\* line 210, then ensure_model_pulled, lines 81-86
ArtList ==
  /\ pc = "art_list"
  /\ selected_model' = Get(cfg, "LOCAL_MODEL")
  /\ IF selected_model' = None
     THEN \* None.replace: AttributeError
          /\ Uncaught
          /\ UNCHANGED <<listRuns, listStdout, artResult>>
     ELSE IF ~ollamaInstalled
     THEN \* subprocess.run(["ollama", "list"]): FileNotFoundError
          /\ Uncaught
          /\ UNCHANGED <<listRuns, listStdout, artResult>>
     ELSE \E out \in ListOutputs :
            /\ listRuns' = listRuns + 1
            /\ listStdout' = out
            /\ IF Contains(clean_id(selected_model'), out)
               THEN artResult' = "ready" /\ pc' = "find_aider"
               ELSE artResult' = "missing" /\ pc' = "art_pull"
            /\ UNCHANGED exit
  /\ UNCHANGED <<world, file, render, choice, env, cmd, attempt,
                 initialCheck, spawned, polls, sleeps, pullRuns, pullArg, pullExit, svcResult,
                 launched, childEnv, childArgs, childOutcome, session>>

\* variant: "check=True" is missing, so a non-zero exit raises nothing
ArtPull_ExitIgnored ==
  /\ pc = "art_pull"
  /\ IF ~ollamaInstalled
     THEN /\ Uncaught
          /\ UNCHANGED <<pullRuns, pullArg, pullExit, artResult>>
     ELSE \E code \in ExitCodes :
            /\ pullRuns' = pullRuns + 1
            /\ pullArg' = clean_id(selected_model)
            /\ pullExit' = code
            /\ artResult' = "ready" /\ pc' = "find_aider"
            /\ UNCHANGED exit
  /\ UNCHANGED <<world, file, render, choice, selected_model, env, cmd, attempt,
                 initialCheck, spawned, polls, sleeps, listRuns, listStdout, svcResult,
                 launched, childEnv, childArgs, childOutcome, session>>

\* ensure_model_pulled, lines 88-95
ArtPull ==
  /\ pc = "art_pull"
  /\ IF ~ollamaInstalled
     THEN \* subprocess.run(["ollama", "pull", ...]): FileNotFoundError
          /\ Uncaught
          /\ UNCHANGED <<pullRuns, pullArg, pullExit, artResult>>
     ELSE \E code \in ExitCodes :
            /\ pullRuns' = pullRuns + 1
            /\ pullArg' = clean_id(selected_model)
            /\ pullExit' = code
            /\ IF code = 0
               THEN artResult' = "ready" /\ pc' = "find_aider"
               ELSE artResult' = "fetch_failed" /\ pc' = "press_enter"
            /\ UNCHANGED exit
  /\ UNCHANGED <<world, file, render, choice, selected_model, env, cmd, attempt,
                 initialCheck, spawned, polls, sleeps, listRuns, listStdout, svcResult,
                 launched, childEnv, childArgs, childOutcome, session>>

\* lines 216-230
FindAider ==
  /\ pc = "find_aider"
  /\ IF get_aider_path = None
     THEN /\ pc' = "exited" /\ exitStatus' = 1 /\ exitCause' = "no_aider"
          /\ cmd' = cmd
     ELSE /\ cmd' = BuildCmd(get_aider_path, selected_model)
          /\ pc' = "launch"
          /\ UNCHANGED exit
  /\ UNCHANGED <<world, file, render, choice, selected_model, env, attempt,
                 hist, session>>

\* line 233: subprocess.run(cmd, env=env) starts the child
LaunchStart ==
  /\ pc = "launch"
  /\ IF cmd[3] = None
     THEN \* a None in argv: TypeError before any process is created
          /\ Uncaught
          /\ UNCHANGED <<launched, childEnv, childArgs, childOutcome>>
     ELSE /\ launched' = TRUE
          /\ childEnv' = env
          /\ childArgs' = cmd
          /\ childOutcome' = "running"
          /\ pc' = "child_wait"
          /\ UNCHANGED exit
  /\ UNCHANGED <<world, file, render, choice, selected_model, env, cmd, attempt,
                 initialCheck, spawned, polls, sleeps, listRuns, pullRuns, listStdout, pullArg,
                 pullExit, svcResult, artResult, session>>

\* line 233: the child terminates with some status; the status is ignored
ChildExit ==
  /\ pc = "child_wait"
  /\ \E status \in ExitCodes :
       childOutcome' = (IF status = 0 THEN "exit_zero" ELSE "exit_nonzero")
  /\ pc' = "render"
  /\ UNCHANGED <<world, file, render, choice, selected_model, env, cmd, attempt,
                 initialCheck, spawned, polls, sleeps, listRuns, pullRuns,
                 listStdout, pullArg, pullExit, svcResult, artResult, launched,
                 childEnv, childArgs, session, exit>>

\* variant: no "except KeyboardInterrupt", the interrupt propagates
ChildInterrupt_NotCaught ==
  /\ pc = "child_wait"
  /\ childOutcome' = "interrupt"
  /\ Uncaught
  /\ UNCHANGED <<world, file, render, choice, selected_model, env, cmd, attempt,
                 initialCheck, spawned, polls, sleeps, listRuns, pullRuns,
                 listStdout, pullArg, pullExit, svcResult, artResult, launched,
                 childEnv, childArgs, session>>

\* lines 234-235: KeyboardInterrupt during the wait is swallowed
ChildInterrupt ==
  /\ pc = "child_wait"
  /\ childOutcome' = "interrupt"
  /\ pc' = "render"
  /\ UNCHANGED <<world, file, render, choice, selected_model, env, cmd, attempt,
                 initialCheck, spawned, polls, sleeps, listRuns, pullRuns,
                 listStdout, pullArg, pullExit, svcResult, artResult, launched,
                 childEnv, childArgs, session, exit>>

Next ==
  \/ Start \/ Render
  \/ ChooseQuit \/ ChooseSettings \/ ChooseCloud \/ ChooseLocal
  \/ SettingsKey \/ SettingsCloud \/ SettingsLocal \/ SettingsBack
  \/ SvcCheck \/ SvcSpawn \/ SvcPoll \/ PressEnter
  \/ ArtList \/ ArtPull
  \/ FindAider \/ LaunchStart \/ ChildExit \/ ChildInterrupt

Spec == Init /\ [][Next]_vars

TypeOK ==
  /\ pc \in {"start", "render", "choose", "settings", "svc_check", "svc_spawn",
             "svc_poll", "press_enter", "art_list", "art_pull", "find_aider",
             "launch", "child_wait", "exited"}
  /\ attempt \in 0..MaxAttempts
\* the scheduling of a single-threaded program: a sleeping poll loop resumes
FairSpec == Spec /\ WF_vars(SvcPoll)

----------------------------------------------------------------------------
(* Properties *)

CredentialPresent(c) ==
  /\ "GEMINI_API_KEY" \in DOMAIN c
  /\ c["GEMINI_API_KEY"] # None
  /\ Len(c["GEMINI_API_KEY"]) > 0

AgentMissing == ~aiderInVenv /\ ~aiderOnPath

\* C1: at every menu render, Cloud is available exactly when the internet
\* probe succeeded and a non-empty credential is configured, whatever the
\* local-service probe said.
C1_CloudAvailability ==
  pc \notin {"start", "render"} =>
    (cloud_ready <=> (online /\ CredentialPresent(cfg)))

C1_Witness ==
  /\ pc = "choose" /\ online /\ ~ollama_up
  /\ "GEMINI_API_KEY" \in DOMAIN cfg /\ cfg["GEMINI_API_KEY"] = EmptyStr
  /\ ~cloud_ready

\* C2: a service that stays unreachable is polled exactly MaxAttempts times
\* after the spawn, then remediation fails with a timeout; the poll loop
\* always ends.
C2_TimeoutAfterCeiling ==
  /\ [](svcResult = "timeout" =>
          polls = MaxAttempts /\ spawned = 1 /\ initialCheck = "down")
  /\ [](polls <= MaxAttempts)
  /\ []((polls = MaxAttempts /\ sleeps = MaxAttempts) => svcResult = "timeout")
  /\ ((pc = "svc_poll") ~> (pc # "svc_poll"))

C2_Witness ==
  /\ pc = "press_enter" /\ svcResult = "timeout" /\ polls = MaxAttempts

\* C3: when the initial readiness check succeeds, nothing is spawned, no poll
\* and no sleep happens and the result is Ready, also on a repeated Local
\* selection.
C3_ReadyIsIdempotent ==
  initialCheck = "up" =>
    /\ spawned = 0 /\ polls = 0 /\ sleeps = 0
    /\ svcResult = "ready"
    /\ pc \notin {"svc_spawn", "svc_poll"}

C3_Witness ==
  /\ pc = "art_list" /\ initialCheck = "up" /\ localSelectedBefore

\* C5: identifier absent from the list output and pull exits non-zero: the
\* artifact step fails, control returns to the menu, no agent is launched.
C5_FetchFailureReturnsToMenu ==
  (pullRuns > 0 /\ pullExit # 0) =>
    /\ artResult = "fetch_failed"
    /\ pc \in {"press_enter", "render"}
    /\ ~launched

C5_Witness ==
  /\ pc = "render" /\ pullRuns = 1 /\ pullExit = 1
  /\ ~Contains(pullArg, listStdout)

\* C6: selecting Cloud while Cloud is unavailable changes nothing: no launch,
\* no remediation, no configuration write, and the menu is shown again.
C6_UnavailableCloudIsNoOp ==
  [][ (pc = "choose" /\ choice' = "1" /\ ~cloud_ready) =>
        /\ pc' = "render"
        /\ UNCHANGED file
        /\ ~launched' /\ spawned' = 0 /\ polls' = 0
        /\ listRuns' = 0 /\ pullRuns' = 0 ]_vars

C6_Witness ==
  /\ pc = "render" /\ choice = "1" /\ ~online /\ CredentialPresent(cfg)
  /\ ~launched

C9_ServiceBeforeArtifact ==
  /\ (listRuns > 0 \/ pullRuns > 0 \/ pc \in {"art_list", "art_pull"})
       => svcResult = "ready"
  /\ svcResult \in {"timeout", "tool_missing"}
       => (listRuns = 0 /\ pullRuns = 0 /\ ~launched
           /\ pc \in {"press_enter", "render"})

C9_Witness ==
  /\ svcResult = "timeout" /\ pc = "render" /\ listRuns = 0

\* C10: a Local launch hands the child exactly the inherited environment,
\* also when a Cloud launch came earlier in the session.
C10_NoCredentialForLocal ==
  (launched /\ choice = "2") => childEnv = osEnviron

C10_Witness ==
  /\ launched /\ choice = "2" /\ cloudLaunchedBefore
  /\ CredentialPresent(cfg)
  /\ "GEMINI_API_KEY" \notin DOMAIN osEnviron

\* the identifier with a leading "ollama/" removed, as the comment at line 80
\* describes it
StripPrefix(model_id) ==
  IF Len(model_id) >= Len(OllamaPrefix)
     /\ SubSeq(model_id, 1, Len(OllamaPrefix)) = OllamaPrefix
  THEN SubSeq(model_id, Len(OllamaPrefix) + 1, Len(model_id))
  ELSE model_id

\* C4: when the list output contains the identifier with its "ollama/"
\* prefix stripped, pull is never invoked and the artifact step succeeds.
C4_ShortCircuit ==
  (listRuns > 0 /\ Contains(StripPrefix(selected_model), listStdout)) =>
    (pullRuns = 0 /\ artResult = "ready" /\ pc # "art_pull")

\* C7: the orchestrator ends only through Quit with status 0 or through a
\* missing agent executable with a non-zero status; every other failure
\* returns to the menu.
C7_OnlyMissingAgentIsFatal ==
  pc = "exited" =>
    \/ (exitStatus = 0 /\ choice = "q")
    \/ (exitStatus # 0 /\ AgentMissing /\ exitCause = "no_aider")

\* C11: building the launch environment leaves the orchestrator's own
\* environment as it was, and a Cloud child gets the inherited environment
\* with the credential key added or overridden by the configured value.
C11_OverlayLeavesBaseUntouched ==
  /\ [][osEnviron' = osEnviron]_vars
  /\ []((launched /\ choice = "1") =>
          /\ DOMAIN childEnv = (DOMAIN osEnviron) \cup {"GEMINI_API_KEY"}
          /\ childEnv["GEMINI_API_KEY"] = cfg["GEMINI_API_KEY"]
          /\ \A k \in (DOMAIN osEnviron) \ {"GEMINI_API_KEY"} :
               childEnv[k] = osEnviron[k])

C11_Witness ==
  /\ launched /\ choice = "1"
  /\ "GEMINI_API_KEY" \in DOMAIN osEnviron
  /\ osEnviron["GEMINI_API_KEY"] # cfg["GEMINI_API_KEY"]
  /\ childEnv["GEMINI_API_KEY"] = <<"k">>

\* time spent in time.sleep inside the poll loop of the current selection
ElapsedWaitMs == sleeps * PollIntervalMs

ReadyOnThirdPoll == initialCheck = "down" /\ svcResult = "ready" /\ polls = 3

\* C12 as stated: a service that first answers on poll attempt 3 has been
\* waited for during three polling intervals.
C12_ThreeIntervals ==
  ReadyOnThirdPoll => ElapsedWaitMs = 3 * PollIntervalMs

\* C12, amended: a service that is down at the initial check and first
\* answers on poll attempt 3 has been waited for during two polling intervals
\* (the loop checks before it sleeps); remediation ends Ready after one spawn
\* and the selection goes on to the artifact step and, unless that fails, to
\* dispatch.
C12_TwoIntervalsThenProceeds ==
  ReadyOnThirdPoll =>
    /\ ElapsedWaitMs = 2 * PollIntervalMs
    /\ spawned = 1
    /\ pc \notin {"svc_check", "svc_spawn", "svc_poll"}
    /\ pc = "press_enter" => artResult = "fetch_failed"
    /\ listRuns = 0 => pc \in {"art_list", "exited"}

C12_Witness ==
  /\ ReadyOnThirdPoll /\ pc = "child_wait" /\ launched /\ choice = "2"

\* C13: an interrupt that arrives while the orchestrator waits on the agent
\* child is swallowed: the orchestrator neither exits nor reports an error,
\* and its next position is the mode-selection menu.
C13_InterruptIsSwallowed ==
  [][ (pc = "child_wait" /\ childOutcome' = "interrupt") =>
        (pc' = "render" /\ exitCause' = "running" /\ UNCHANGED exit) ]_vars

C13_Witness ==
  /\ pc = "render" /\ launched /\ childOutcome = "interrupt"
  /\ exitCause = "running"

\* the identifier the selected mode is configured with, or the documented
\* default (lines 126-127, 154-155) when the key is absent
ConfiguredOrDefault(c, key, default) ==
  IF key \in DOMAIN c THEN c[key] ELSE default

ExpectedModel ==
  IF choice = "1"
  THEN ConfiguredOrDefault(cfg, "GEMINI_MODEL", DefaultCloudModel)
  ELSE ConfiguredOrDefault(cfg, "LOCAL_MODEL", DefaultLocalModel)

\* C14: every launch passes --model with the identifier of the selected
\* mode (the documented default when its key is absent), followed by
\* --architect, --watch-files and --no-auto-commits; the identifier is never
\* missing.
C14_LaunchArguments ==
  pc \in {"launch", "child_wait"} =>
    /\ cmd = <<get_aider_path, "--model", ExpectedModel,
               "--architect", "--watch-files", "--no-auto-commits">>
    /\ cmd[3] # None

\* C15: when the service binary is not installed, remediation fails at the
\* spawn with no retry: no process, no poll, no sleep, no artifact step, and
\* control returns to the menu without a launch.
C15_MissingToolIsNotRetried ==
  /\ (initialCheck = "down" /\ ~ollamaInstalled /\ pc # "svc_spawn")
       => svcResult = "tool_missing"
  /\ svcResult = "tool_missing" =>
       /\ ~ollamaInstalled
       /\ spawned = 0 /\ polls = 0 /\ sleeps = 0
       /\ listRuns = 0 /\ pullRuns = 0
       /\ ~launched
       /\ pc \in {"press_enter", "render"}

C15_Witness ==
  /\ pc = "render" /\ svcResult = "tool_missing" /\ choice = "2"

\* C16: the menu's default choice is Cloud exactly when Cloud is available
\* at that render and Local otherwise; Local can be selected at every render
\* whatever the local-service probe said, and carries the auto-start note
\* exactly when that probe reported the service down.
C16_MenuDefaultAndLocalEntry ==
  pc = "choose" =>
    /\ menuDefault = "1" <=> (online /\ CredentialPresent(cfg))
    /\ menuDefault = "2" <=> ~(online /\ CredentialPresent(cfg))
    /\ ENABLED ChooseLocal
    /\ localLabel = "auto-start" <=> ~ollama_up
    /\ localLabel = "ok" <=> ollama_up

C16_Witness ==
  /\ pc = "svc_check" /\ choice = "2" /\ ~ollama_up
  /\ localLabel = "auto-start" /\ menuDefault = "2" /\ online

\* C17: configuration writes merge: after any sequence of sets since the
\* configuration was last read, every key named by a set holds the value of
\* the last set that named it, and every other key is as it was before.
C17_MergeOnWrite ==
  (pc = "settings" \/ DOMAIN setsSinceRender # {}) =>
    \A k \in ConfigKeys :
      IF k \in DOMAIN setsSinceRender
      THEN k \in DOMAIN fileData /\ fileData[k] = setsSinceRender[k]
      ELSE /\ (k \in DOMAIN fileData) <=> (k \in DOMAIN cfg)
           /\ k \in DOMAIN cfg => fileData[k] = cfg[k]

C17_Witness ==
  /\ pc = "settings"
  /\ DOMAIN setsSinceRender = {"GEMINI_MODEL", "LOCAL_MODEL"}
  /\ "GEMINI_API_KEY" \in DOMAIN fileData
  /\ fileData["GEMINI_MODEL"] = UserCloudModel /\ cfg["GEMINI_MODEL"] = DefaultCloudModel
  /\ fileData["LOCAL_MODEL"] = UserLocalModel /\ cfg["LOCAL_MODEL"] = DefaultLocalModel

\* C18: an agent child runs only after the readiness of the one selected
\* mode was confirmed in the same menu iteration: Cloud was available at the
\* render, or the service remediation ended Ready and the artifact was found
\* by the list check or its pull exited zero; the other mode took no part.
C18_LaunchOnlyWhenReady ==
  launched =>
    /\ choice \in {"1", "2"}
    /\ choice = "1" =>
         /\ cloud_ready /\ online /\ CredentialPresent(cfg)
         /\ initialCheck = "none" /\ svcResult = "unknown" /\ artResult = "unknown"
         /\ spawned = 0 /\ polls = 0 /\ listRuns = 0 /\ pullRuns = 0
         /\ childArgs[3] = cfg["GEMINI_MODEL"]
    /\ choice = "2" =>
         /\ svcResult = "ready" /\ artResult = "ready"
         /\ listRuns = 1
         /\ \/ Contains(clean_id(selected_model), listStdout) /\ pullRuns = 0
            \/ pullRuns = 1 /\ pullExit = 0
         /\ childArgs[3] = cfg["LOCAL_MODEL"]
         /\ childEnv = osEnviron

C18_Witness ==
  /\ pc = "child_wait" /\ launched /\ choice = "2"
  /\ initialCheck = "down" /\ pullRuns = 1 /\ pullExit = 0
  /\ cloud_ready

\* C19: within one Local selection the service process is spawned at most
\* once and only after the initial check failed (a poll never spawns), the
\* list command has run exactly once when the artifact step is over, and
\* pull runs at most once, after a list that did not show the identifier and
\* with no second list.
C19_EachRemediationOnce ==
  /\ [](/\ spawned <= 1 /\ listRuns <= 1 /\ pullRuns <= 1
        /\ spawned = 1 => initialCheck = "down"
        /\ artResult # "unknown" => listRuns = 1
        /\ (choice = "2" /\ pc \in {"art_pull", "find_aider", "launch", "child_wait"})
             => listRuns = 1
        /\ pullRuns = 1 =>
             (listRuns = 1 /\ ~Contains(clean_id(selected_model), listStdout)))
  /\ [][ /\ spawned' > spawned => (pc = "svc_spawn" /\ initialCheck = "down")
         /\ listRuns' > listRuns => (pc = "art_list" /\ pullRuns = 0)
         /\ pullRuns' > pullRuns => (pc = "art_pull" /\ listRuns' = listRuns) ]_vars

C19_Witness ==
  /\ pc = "child_wait" /\ choice = "2"
  /\ spawned = 1 /\ polls = 3 /\ listRuns = 1 /\ pullRuns = 1
====
